---- MODULE Spec2Model ----
(***************************************************************************)
(* Identity & Access Core of the XReason frontend:                         *)
(*   - RBACProvider   (role hierarchy, role -> permission table, checks)   *)
(*   - AuthProvider   (the auth reducer state read by the other two)       *)
(*   - TenantProvider (memberships, active tenant, tenant mutations)       *)
(***************************************************************************)
EXTENDS Integers, Sequences, FiniteSets, TLC

VARIABLES
    user,             \* AuthState.user : a User record or None
    session,          \* AuthState.session : a Session record or None
    isAuthenticated,  \* AuthState.isAuthenticated
    authIsLoading,    \* AuthState.isLoading
    error,            \* AuthState.error : a message, or NoError
    authToken,        \* localStorage item 'auth_token' : a token, or NoToken
    refreshTimer,     \* the handle kept by the auto-refresh effect's cleanup: the
                      \* timeout its last run armed, or None if it armed none
    timers,           \* the timeouts armed and neither fired nor cleared
    now,              \* Date.now(), in milliseconds
    mounted,          \* AuthProvider's mount effect (initializeAuth) has run
    rbacContext,      \* the memoized RBAC context value, or None
    currentTenant,    \* TenantProvider state: Tenant or None
    availableTenants, \* TenantProvider state: sequence of Tenant
    isLoading,        \* TenantProvider state
    pending,          \* calls awaiting a tenantService / authService response
    effects,          \* passive effects of the last commit that have not run yet
    sessionObj,       \* which object state.session is (0: null); closures made
                      \* in different renders may hold different session objects
    lastCall          \* the operation that completed in the step just taken (a
                      \* handler returned to its caller, the loadTenants effect
                      \* ended on the directory's answer, or a permission / role
                      \* check or a guarded route gave its result), or None

vars == <<user, session, isAuthenticated, authIsLoading, error, authToken,
          refreshTimer, timers, now, mounted, rbacContext,
          currentTenant, availableTenants, isLoading, pending, effects, sessionObj,
          lastCall>>

authVars == <<isAuthenticated, authIsLoading, error, authToken, refreshTimer, timers,
              now, mounted, effects, sessionObj>>

rbacVars == <<user, session, rbacContext>>
tenantVars == <<currentTenant, availableTenants, isLoading, pending, lastCall>>

\* null / undefined (a record, so that it compares with records)
None == [ none |-> TRUE ]

\* null / undefined where an id string is expected
NoId == "none"

\* AuthState.error = null
NoError == "null"

\* localStorage.getItem('auth_token') = null
NoToken == "null"

(***************************************************************************)
(* Generic array helpers (JavaScript Array semantics).                     *)
(***************************************************************************)
Range(s) == { s[i] : i \in DOMAIN s }

RECURSIVE Concat(_)
\* Array.prototype.flat over a sequence of sequences
Concat(ss) == IF ss = <<>> THEN <<>> ELSE Head(ss) \o Concat(Tail(ss))

RECURSIVE Dedup(_, _)
\* [...new Set(xs)] : first occurrences, insertion order kept
Dedup(xs, seen) ==
    IF xs = <<>> THEN <<>>
    ELSE IF Head(xs) \in seen THEN Dedup(Tail(xs), seen)
         ELSE <<Head(xs)>> \o Dedup(Tail(xs), seen \cup {Head(xs)})

\* Array.prototype.indexOf : zero-based position of the first match, or -1
IndexOf(xs, x) ==
    IF \E i \in DOMAIN xs : xs[i] = x
    THEN (CHOOSE i \in DOMAIN xs : xs[i] = x /\ \A j \in 1..(i - 1) : xs[j] # x) - 1
    ELSE -1

\* Array.prototype.includes
Includes(xs, x) == \E i \in DOMAIN xs : xs[i] = x

(***************************************************************************)
(* types.ts : Role and Permission enums, in declaration order.             *)
(***************************************************************************)
RoleValues == <<"owner", "admin", "analyst", "developer", "viewer", "partner">>

Role == Range(RoleValues)

PermissionValues ==
    << "manage_users", "view_users", "manage_tenant", "switch_tenants",
       "manage_billing", "view_billing", "view_analytics", "export_analytics",
       "manage_compliance", "view_compliance", "upload_evidence",
       "manage_rulesets", "view_rulesets", "promote_rulesets",
       "view_audit", "export_audit", "manage_partners", "view_partners",
       "submit_rulesets", "manage_api_keys", "manage_webhooks",
       "manage_feature_flags" >>

Permission == Range(PermissionValues)

(***************************************************************************)
(* RBACProvider.tsx : the two tables.                                      *)
(***************************************************************************)
roleHierarchy ==
    [ owner     |-> <<"admin", "analyst", "developer", "viewer", "partner">>,
      admin     |-> <<"analyst", "developer", "viewer", "partner">>,
      analyst   |-> <<"viewer">>,
      developer |-> <<"viewer">>,
      viewer    |-> <<>>,
      partner   |-> <<"viewer">> ]

rolePermissions ==
    [ owner |->
        << "manage_users", "view_users", "manage_tenant", "switch_tenants",
           "manage_billing", "view_billing", "view_analytics", "export_analytics",
           "manage_compliance", "view_compliance", "upload_evidence",
           "manage_rulesets", "view_rulesets", "promote_rulesets",
           "view_audit", "export_audit", "manage_partners", "view_partners",
           "submit_rulesets", "manage_api_keys", "manage_webhooks",
           "manage_feature_flags" >>,
      admin |->
        << "manage_users", "view_users", "manage_tenant", "switch_tenants",
           "manage_billing", "view_billing", "view_analytics", "export_analytics",
           "manage_compliance", "view_compliance", "upload_evidence",
           "manage_rulesets", "view_rulesets", "promote_rulesets",
           "view_audit", "export_audit", "view_partners",
           "manage_api_keys", "manage_webhooks" >>,
      analyst |->
        << "view_users", "view_billing", "view_analytics", "export_analytics",
           "view_compliance", "upload_evidence", "view_rulesets",
           "view_audit", "export_audit", "view_partners" >>,
      developer |->
        << "view_users", "view_analytics", "view_rulesets", "promote_rulesets",
           "view_audit", "manage_api_keys", "manage_webhooks" >>,
      viewer |->
        << "view_analytics", "view_compliance", "view_rulesets", "view_audit" >>,
      partner |->
        << "view_analytics", "view_rulesets", "submit_rulesets", "view_audit" >> ]

\* the property names every object literal inherits from Object.prototype
ObjectPrototypeKeys ==
    { "constructor", "__proto__", "hasOwnProperty", "isPrototypeOf",
      "propertyIsEnumerable", "toLocaleString", "toString", "valueOf",
      "__defineGetter__", "__defineSetter__", "__lookupGetter__", "__lookupSetter__" }

\* table[key] reads an array: an own key of the table, or a key that reads
\* undefined (an inherited key reads a function, or the prototype object)
ReadsArray(table, key) == key \in DOMAIN table \/ key \notin ObjectPrototypeKeys

\* table[key] || [] : a key that reads undefined is replaced by []; an
\* inherited key reads a truthy value that is not an array and is kept
LookupOrEmpty(table, key) ==
    IF key \in DOMAIN table THEN table[key]
    ELSE IF key = "__proto__" THEN [ notAnArray |-> "object" ]
    ELSE IF key \in ObjectPrototypeKeys THEN [ notAnArray |-> "function" ]
    ELSE <<>>

(***************************************************************************)
(* RBACProvider.tsx : permission resolution and the two checks.            *)
(***************************************************************************)
\* A plausible slip: the inherited roles are forgotten
getUserPermissions_DirectOnly(userRole) ==
    IF ~ReadsArray(rolePermissions, userRole)
    THEN [ threw |-> "TypeError: directPermissions is not iterable" ]
    ELSE Dedup(LookupOrEmpty(rolePermissions, userRole), {})

\* inheritedRoles.flatMap on a value that is not an array is a TypeError
getUserPermissions(userRole) ==
    IF ~ReadsArray(roleHierarchy, userRole)
    THEN [ threw |-> "TypeError: inheritedRoles.flatMap is not a function" ]
    ELSE LET directPermissions == LookupOrEmpty(rolePermissions, userRole)
             inheritedRoles == LookupOrEmpty(roleHierarchy, userRole)
             inheritedPermissions ==
                 Concat([ i \in DOMAIN inheritedRoles |->
                            LookupOrEmpty(rolePermissions, inheritedRoles[i]) ])
         IN  Dedup(directPermissions \o inheritedPermissions, {})

\* a value that stands for an exception thrown while it was computed
Threw(v) == "threw" \in DOMAIN v

\* useMemo(() => ..., [user, session]) : the context value for a (user, session)
\* pair; an exception of getUserPermissions leaves the memo callback, and the
\* render of RBACProvider, uncaught
rbacMemo(u, s) ==
    IF u = None \/ s = None THEN None
    ELSE IF ~ReadsArray(roleHierarchy, u.role) THEN getUserPermissions(u.role)
    ELSE [ user |-> u,
           tenant |-> s.tenant,
           permissions |-> getUserPermissions(u.role) ]

\* RBACProvider rendered <RBACContext.Provider value={ctx}>
RBACProvided(ctx) == ctx # None /\ ~Threw(ctx)

\* A plausible slip (the variant shown in docs/AUTHENTICATION_INTEGRATION.md):
\* the denormalized list of the user record is trusted
hasPermission_FromUserList(ctx, permission) ==
    Includes(ctx.user.permissions, permission)

hasPermission(ctx, permission) == Includes(ctx.permissions, permission)

hasRole(ctx, role) ==
    LET userRoleIndex == IndexOf(RoleValues, ctx.user.role)
        requiredRoleIndex == IndexOf(RoleValues, role)
    IN  userRoleIndex <= requiredRoleIndex

(***************************************************************************)
(* Inputs: what the authentication backend may put in a session.           *)
(***************************************************************************)
\* role strings a deserialized user record may carry: the six roles and two
\* values outside the enum, one of them a property name of Object.prototype
BackendRoles == Role \cup {"guest", "toString"}

\* denormalized permission lists a user / session record may carry
DenormLists == { <<"manage_users", "submit_rulesets">>, <<"view_analytics">> }

UserIds == {"u1"}

TenantIds == {"t1", "t2"}

TenantStatus == {"active", "suspended", "cancelled"}

Tenant == [ id : TenantIds, status : TenantStatus ]

\* the tenant records the directory answers with: t1 active or suspended, and
\* t2 active (no handler tells suspended from cancelled: status is never read)
DirectoryTenants ==
    { [ id |-> "t1", status |-> "active" ], [ id |-> "t1", status |-> "suspended" ],
      [ id |-> "t2", status |-> "active" ] }

User == [ id : UserIds, role : BackendRoles, permissions : DenormLists ]

\* session tokens the backend issues
Tokens == {"tokA", "tokB"}

\* the clock advances in steps of five minutes
TickMs == 5 * 60 * 1000

\* number of clock steps explored
MaxTicks == 2

\* the instants of the explored time line, in milliseconds
Instants == { k * TickMs : k \in 0..(MaxTicks + 10) }

\* Session.user is the `user` of the same AUTH_SUCCESS payload and is not
\* repeated; expiresAt is expiresAt.getTime()
Session == [ tenant : Tenant \cup {None}, permissions : DenormLists,
             token : Tokens, expiresAt : Instants ]

(***************************************************************************)
(* AuthProvider.tsx : the reducer transitions, each followed by the        *)
(* re-render it causes (RBAC memo, TenantProvider effect, auto-refresh     *)
(* effect).  `calls` is the set of calls left in flight by the dispatching *)
(* handler.                                                                *)
(***************************************************************************)
\* TenantProvider's effect on [user, session]: loadTenants() up to its await
\* the call record keeps what the closure reads after the await: the tenant of
\* the session object of the render the effect ran in
\* cap on the number of getUserTenants calls in flight at once
MaxLoads == 2

\* the getUserTenants calls among the calls in flight
LoadCalls(calls) == { q \in calls : q.op = "loadTenants" }

\* the dispatching handler may cause one more getUserTenants call
CanLoad(calls) == Cardinality(LoadCalls(calls)) < MaxLoads

\* the calls whose closure holds the session object of the render that made
\* them (loadTenants reads session?.tenant after its await, switchTenant
\* assigns session.tenant, deleteTenant calls the switchTenant of its render)
SessionClosures(calls) ==
    { q \in calls : q.op \in {"loadTenants", "switchTenant", "deleteTenant"} }

\* AUTH_SUCCESS stores the session object of its payload, a new object: it is
\* none of the objects a closure in flight holds (the smallest such number)
NewSessionObj(calls) ==
    CHOOSE k \in 1..(Cardinality(SessionClosures(calls)) + 1) :
        /\ \A q \in SessionClosures(calls) : q.sid # k
        /\ \A j \in 1..(k - 1) : \E q \in SessionClosures(calls) : q.sid = j

\* every run of the effect makes a call of its own: n tells apart the calls
\* whose closures are alike (the smallest number no such call in flight
\* carries, mounted or not); sid is the session object of the render the
\* effect ran in; live tells whether the TenantProvider instance that made the
\* call is still mounted
LoadCall(u, s, calls) ==
    LET call(k, mounted_) == [ op |-> "loadTenants", userId |-> u.id,
                               sessionTenant |-> IF s = None THEN None ELSE s.tenant,
                               sid |-> sessionObj, n |-> k, live |-> mounted_ ]
        taken(k) == call(k, TRUE) \in calls \/ call(k, FALSE) \in calls
    IN  call(CHOOSE k \in 1..(Cardinality(LoadCalls(calls)) + 1) :
                ~taken(k) /\ \A j \in 1..(k - 1) : taken(j),
             TRUE)

\* TenantProvider's effect is queued and will make a call (`if (!user) return`)
loadTenantsStarts == "load" \in effects /\ user # None

\* Math.max(a, b)
Max(a, b) == IF a >= b THEN a ELSE b

\* 5 * 60 * 1000 : the lead time of the refresh before expiry
REFRESH_MARGIN == 5 * 60 * 1000

\* A plausible slip: the refresh is scheduled at expiry, without the lead time
refreshTime_NoMargin(s, t) == Max(s.expiresAt - t, 0)

\* the delay the auto-refresh effect computes for session s at time t
refreshTime(s, t) ==
    LET timeUntilExpiry == s.expiresAt - t
    IN  Max(timeUntilExpiry - REFRESH_MARGIN, 0)

\* setTimeout(() => refreshSession(), refreshTime), armed at time t by the
\* render whose state.session is s (the refreshSession it calls reads s.token)
armRefreshTimer(s, t) ==
    [ delay |-> refreshTime(s, t), armedAt |-> t, token |-> s.token ]

\* the effect's cleanup, clearTimeout(refreshTimer), run before the effect runs
\* again: the timeout of that handle is no longer armed
clearRefreshTimer(armed, handle) == armed \ {handle}

\* the calls made by TenantProvider's effect and handlers
TenantOps == {"loadTenants", "switchTenant", "createTenant", "updateTenant", "deleteTenant"}

\* the calls in flight after the TenantProvider instance that made them was
\* unmounted: they stay in flight, and their continuations belong to an
\* instance that no longer renders
Unmounted(calls) ==
    { IF q.op \in TenantOps THEN [ q EXCEPT !.live = FALSE ] ELSE q : q \in calls }

\* RBACProvider returns <>{children}</> while its memo is null and
\* <RBACContext.Provider> otherwise: when the memo changes between null and a
\* value the element type at that position changes, and React unmounts the
\* TenantProvider below it and mounts a new one
tenantRemounts(before, after) == (before = None) # (after = None)

\* The passive effects of the last commit, as they run: on their own after the
\* commit (FlushEffects), or at the latest when React is about to render again
\* (it flushes the pending passive effects before every render, so they run
\* with the values of the commit that queued them, after the code of the
\* handler that caused the render).
\*
\* the handle and the armed timeouts the auto-refresh effect leaves: the
\* cleanup of its previous run, then a timer for the session of the commit,
\* if any; after the tree was unmounted, the cleanup alone
flushedRefreshTimer ==
    IF "unmount" \in effects THEN None
    ELSE IF "timer" \in effects
         THEN IF session = None THEN None ELSE armRefreshTimer(session, now)
         ELSE refreshTimer

flushedTimers ==
    IF "unmount" \in effects THEN clearRefreshTimer(timers, refreshTimer)
    ELSE IF "timer" \in effects
         THEN IF session = None THEN clearRefreshTimer(timers, refreshTimer)
              ELSE clearRefreshTimer(timers, refreshTimer)
                       \cup { armRefreshTimer(session, now) }
         ELSE timers

\* the calls in flight once TenantProvider's effect has run
flushedPending ==
    IF loadTenantsStarts THEN pending \cup { LoadCall(user, session, pending) }
    ELSE pending

\* isLoading once TenantProvider's effect has run, when the handler that
\* caused the render left it at `loading` (setIsLoading(true) of the effect
\* is queued after the handler's own updates)
flushedLoading(loading) == IF loadTenantsStarts THEN TRUE ELSE loading

\* a render caused by a handler that touched neither the auth state nor the
\* timer: the pending effects have run, and it queues none
RenderFlushed ==
    /\ effects' = {}
    /\ refreshTimer' = flushedRefreshTimer
    /\ timers' = flushedTimers
    /\ UNCHANGED <<isAuthenticated, authIsLoading, error, authToken, now, mounted,
                   sessionObj>>

\* the re-render after a dispatch that left (u, s) in the auth state: the RBAC
\* memo, the TenantProvider instance, and the passive effects the commit
\* leaves to run (fx: those whose dependencies changed; a mounted
\* TenantProvider runs its effect too).  An exception thrown by the memo is
\* caught by no error boundary: the whole tree is unmounted, the effects of
\* the render that threw never run, and the cleanup of the auto-refresh effect
\* (if its last run returned one) is left to the next flush of passive
\* effects, until when the timeout stays armed.  `calls` are the calls in
\* flight when the render starts (the pending effects have run by then)
Rendered(u, s, calls, fx) ==
    LET ctx == rbacMemo(u, s)
    IN  /\ rbacContext' = ctx
        /\ refreshTimer' = flushedRefreshTimer
        /\ timers' = flushedTimers
        /\ IF Threw(ctx)
           THEN /\ currentTenant' = None
                /\ availableTenants' = <<>>
                /\ isLoading' = TRUE
                /\ pending' = Unmounted(calls)
                /\ effects' = IF flushedRefreshTimer # None THEN {"unmount"} ELSE {}
           ELSE IF tenantRemounts(rbacContext, ctx)
           THEN /\ currentTenant' = None
                /\ availableTenants' = <<>>
                /\ isLoading' = TRUE
                /\ pending' = Unmounted(calls)
                /\ effects' = fx \cup {"load"}
           ELSE /\ pending' = calls
                /\ effects' = fx
                /\ isLoading' = flushedLoading(isLoading)
                /\ UNCHANGED <<currentTenant, availableTenants>>

\* a dispatch after the tree was unmounted by an uncaught exception: the
\* reducer's provider is gone, nothing renders and no effect runs
Unrendered(calls) ==
    /\ pending' = calls
    /\ UNCHANGED <<user, session, isAuthenticated, authIsLoading, error, rbacContext>>
    /\ UNCHANGED <<currentTenant, availableTenants, isLoading, effects, refreshTimer,
                   timers, sessionObj>>

\* the step returns to no caller (a handler suspends, or an effect runs)
NoReturn == lastCall' = None

\* the passive effects of the last commit run, after the commit and before the
\* next render: the auto-refresh effect and TenantProvider's effect
FlushEffects ==
    /\ effects # {}
    /\ effects' = {}
    /\ refreshTimer' = flushedRefreshTimer
    /\ timers' = flushedTimers
    /\ isLoading' = flushedLoading(isLoading)
    /\ pending' = flushedPending
    /\ NoReturn
    /\ UNCHANGED <<user, session, rbacContext, currentTenant, availableTenants>>
    /\ UNCHANGED <<isAuthenticated, authIsLoading, error, authToken, now, mounted>>
    /\ UNCHANGED sessionObj

\* loadTenants, the directory call rejected: catch logs, finally clears
\* isLoading (the state setter of an instance unmounted meanwhile, p.live =
\* FALSE, changes nothing)
LoadTenantsRejected(p) ==
    /\ p \in pending /\ p.op = "loadTenants"
    /\ IF p.live
       THEN /\ isLoading' = flushedLoading(FALSE)
            /\ pending' = flushedPending \ {p}
            /\ RenderFlushed
       ELSE /\ pending' = pending \ {p}
            /\ UNCHANGED isLoading
            /\ UNCHANGED authVars
    /\ NoReturn
    /\ UNCHANGED <<currentTenant, availableTenants>>
    /\ UNCHANGED rbacVars

\* dispatch({ type: 'AUTH_START' }) : user and session are kept, so no effect
\* is queued by the render
AuthStart(calls) ==
    IF Threw(rbacContext) THEN Unrendered(calls)
    ELSE /\ authIsLoading' = TRUE
         /\ error' = NoError
         /\ pending' = calls
         /\ isLoading' = flushedLoading(isLoading)
         /\ effects' = {}
         /\ refreshTimer' = flushedRefreshTimer
         /\ timers' = flushedTimers
         /\ UNCHANGED <<user, session, isAuthenticated, rbacContext, sessionObj>>
         /\ UNCHANGED <<currentTenant, availableTenants>>

\* dispatch({ type: 'AUTH_SUCCESS', payload: { user, session } }) : the session
\* object is new, so the timer of the previous one is cleared and one is armed
AuthSuccess(u, s, calls) ==
    IF Threw(rbacContext) THEN Unrendered(calls)
    ELSE /\ CanLoad(calls)
         /\ user' = u
         /\ session' = s
         /\ isAuthenticated' = TRUE
         /\ authIsLoading' = FALSE
         /\ error' = NoError
         /\ sessionObj' = NewSessionObj(calls)
         /\ Rendered(u, s, calls, {"timer", "load"})

\* A plausible slip: the failure is recorded and the stale user and session kept
AuthFailure_KeepsSession(message, calls) ==
    /\ isAuthenticated' = FALSE
    /\ authIsLoading' = FALSE
    /\ error' = message
    /\ pending' = calls
    /\ isLoading' = flushedLoading(isLoading)
    /\ effects' = {}
    /\ refreshTimer' = flushedRefreshTimer
    /\ timers' = flushedTimers
    /\ UNCHANGED <<user, session, rbacContext, sessionObj>>
    /\ UNCHANGED <<currentTenant, availableTenants>>

\* the effects whose dependencies change when user and session become null
effectsOfSessionEnd ==
    (IF session # None THEN {"timer"} ELSE {})
        \cup (IF user # None \/ session # None THEN {"load"} ELSE {})

\* dispatch({ type: 'AUTH_FAILURE', payload: message }) : session is null, the
\* auto-refresh effect will clear its timer and arm none
AuthFailure(message, calls) ==
    IF Threw(rbacContext) THEN Unrendered(calls)
    ELSE /\ user' = None
         /\ session' = None
         /\ isAuthenticated' = FALSE
         /\ authIsLoading' = FALSE
         /\ error' = message
         /\ sessionObj' = 0
         /\ Rendered(None, None, calls, effectsOfSessionEnd)

\* dispatch({ type: 'AUTH_LOGOUT' })
AuthLogout(calls) ==
    IF Threw(rbacContext) THEN Unrendered(calls)
    ELSE /\ user' = None
         /\ session' = None
         /\ isAuthenticated' = FALSE
         /\ authIsLoading' = FALSE
         /\ error' = NoError
         /\ sessionObj' = 0
         /\ Rendered(None, None, calls, effectsOfSessionEnd)

\* dispatch({ type: 'UPDATE_USER', payload: u }): only state.user is replaced
UpdateUserDispatched(u, calls) ==
    IF Threw(rbacContext) THEN Unrendered(calls)
    ELSE /\ CanLoad(calls)
         /\ user' = u
         /\ Rendered(u, session, calls, {"load"})
         /\ UNCHANGED <<session, sessionObj>>
         /\ UNCHANGED <<isAuthenticated, authIsLoading, error>>

\* dispatch({ type: 'UPDATE_USER', payload: updatedUser }) for a signed-in user
UpdateUser(u) ==
    /\ user # None
    /\ u.id = user.id
    /\ UpdateUserDispatched(u, flushedPending)
    /\ lastCall' = None
    /\ UNCHANGED <<authToken, now, mounted>>

\* a session is established for (u, s), as a completed sign-in leaves it
SessionEstablished(u, s) ==
    /\ AuthSuccess(u, s, flushedPending)
    /\ authToken' = s.token
    /\ lastCall' = None
    /\ UNCHANGED <<now, mounted>>

\* the session is ended, as a completed sign-out leaves it
SessionEnded ==
    /\ user # None
    /\ AuthLogout(flushedPending)
    /\ authToken' = NoToken
    /\ lastCall' = None
    /\ UNCHANGED <<now, mounted>>

(***************************************************************************)
(* Consumers of useRBAC(): a permission / role check against the context.  *)
(***************************************************************************)
\* the check made in the step just taken (hasPermission, hasRole, or a
\* guarded route rendered), or None
lastCheck ==
    IF lastCall # None /\ lastCall.op \in {"hasPermission", "hasRole", "ProtectedRoute"}
    THEN lastCall ELSE None

CheckPermission(permission) ==
    /\ RBACProvided(rbacContext)
    /\ lastCall' = [ op |-> "hasPermission", kind |-> "permission", arg |-> permission,
                     user |-> rbacContext.user,
                     result |-> hasPermission(rbacContext, permission) ]
    /\ UNCHANGED <<user, session, rbacContext>>
    /\ UNCHANGED <<currentTenant, availableTenants, isLoading, pending>>
    /\ UNCHANGED authVars

CheckRole(role) ==
    /\ RBACProvided(rbacContext)
    /\ lastCall' = [ op |-> "hasRole", kind |-> "role", arg |-> role,
                     user |-> rbacContext.user,
                     result |-> hasRole(rbacContext, role) ]
    /\ UNCHANGED <<user, session, rbacContext>>
    /\ UNCHANGED <<currentTenant, availableTenants, isLoading, pending>>
    /\ UNCHANGED authVars

(***************************************************************************)
(* The state after construction: AuthProvider's initialState (its mount    *)
(* effect not yet run), an RBAC memo of null, TenantProvider's useState    *)
(* defaults (its effect returned at `if (!user) return`).                  *)
(***************************************************************************)
Init ==
    /\ user = None
    /\ session = None
    /\ isAuthenticated = FALSE
    /\ authIsLoading = TRUE
    /\ error = NoError
    /\ authToken = NoToken
    /\ refreshTimer = None
    /\ timers = {}
    /\ now = 0
    /\ mounted = FALSE
    /\ rbacContext = None
    /\ currentTenant = None
    /\ availableTenants = <<>>
    /\ isLoading = TRUE
    /\ pending = {}
    /\ effects = {}
    /\ sessionObj = 0
    /\ lastCall = None

(***************************************************************************)
(* components/ProtectedRoute.tsx : the route guard, and SpecRoute, the     *)
(* guarded routes rendered for sessions of every role (further below,      *)
(* after the providers the routes are rendered under).                     *)
(***************************************************************************)
\* A plausible slip: the role requirement is not looked at
ProtectedRoute_PermissionOnly(ctx, permission, role, fallback) ==
    IF permission # NoId /\ ~hasPermission(ctx, permission)
    THEN IF fallback THEN "fallback" ELSE "unauthorized"
    ELSE "children"

\* what ProtectedRoute renders: its children, its fallback, or the redirect
\* to /unauthorized; permission / role are NoId when the prop is not given,
\* fallback tells whether a fallback was given
ProtectedRoute(ctx, permission, role, fallback) ==
    IF permission # NoId /\ ~hasPermission(ctx, permission)
    THEN IF fallback THEN "fallback" ELSE "unauthorized"
    ELSE IF role # NoId /\ ~hasRole(ctx, role)
         THEN IF fallback THEN "fallback" ELSE "unauthorized"
         ELSE "children"

\* the permissions App.tsx guards its routes with
RoutePermissions ==
    { "view_analytics", "view_compliance", "view_rulesets", "view_audit",
      "view_partners", "view_billing", "manage_users" }

(***************************************************************************)
(* TenantProvider.tsx.  Every handler runs to its `await` in one step and  *)
(* is resumed by the tenantService response; a handler keeps the values of *)
(* the render it was created in (currentTenant, availableTenants), while   *)
(* functional updates (prev => ...) read the state at the time they run.   *)
(***************************************************************************)
\* cap on the length of availableTenants (createTenant appends without limit)
MaxAvail == 2

\* cap on the number of tenantService calls in flight at once
MaxPending == 1

\* tenantService.getUserTenants responses: membership lists without repeated ids
DirectoryLists ==
    { <<>> } \cup { <<t>> : t \in DirectoryTenants }
             \cup { pair \in DirectoryTenants \X DirectoryTenants : pair[1].id # pair[2].id }

\* tenants.find(t => t.id === tenantId) : the first match, or undefined
FindById(tenants, tenantId) ==
    IF \E i \in DOMAIN tenants : tenants[i].id = tenantId
    THEN tenants[CHOOSE i \in DOMAIN tenants :
                    /\ tenants[i].id = tenantId
                    /\ \A j \in 1..(i - 1) : tenants[j].id # tenantId]
    ELSE None

\* tenants.map(t => t.id === tenantId ? updatedTenant : t)
ReplaceById(tenants, tenantId, updatedTenant) ==
    [ i \in DOMAIN tenants |->
        IF tenants[i].id = tenantId THEN updatedTenant ELSE tenants[i] ]

\* tenants.filter(t => t.id !== tenantId)
RemoveById(tenants, tenantId) ==
    SelectSeq(tenants, LAMBDA t : t.id # tenantId)

\* the render guard: TenantContext (and with it every handler) reaches the
\* children only when loading is over and a current tenant is set
ContextProvided == ~isLoading /\ currentTenant # None

\* a handler returns to its caller, normally ("ok") or by throwing ("error")
Return(op, tenantId, outcome) ==
    lastCall' = [ op |-> op, tenantId |-> tenantId, outcome |-> outcome ]

\* the loadTenants effect ran to its end on the directory's answer `tenants`
LoadCompleted(tenants) ==
    lastCall' = [ op |-> "loadTenants", tenantId |-> NoId, outcome |-> "ok",
                  tenants |-> tenants ]

\* a handler suspends at its await: at most MaxPending calls are in flight,
\* and no two of them are indistinguishable
CanAwaitUpTo(call, limit) == call \notin pending /\ Cardinality(pending) < limit

CanAwait(call) == CanAwaitUpTo(call, MaxPending)

\* A plausible slip: the tenant carried by the session is not looked at
loadTenantsCurrent_IgnoresSession(s, tenants, current) ==
    IF Len(tenants) > 0 THEN tenants[1] ELSE current

\* the current tenant loadTenants leaves: the session's tenant if it carries
\* one, else the first of the directory's answer, else what it was
loadTenantsCurrent(s, tenants, current) ==
    IF s # None /\ s.tenant # None THEN s.tenant
    ELSE IF Len(tenants) > 0 THEN tenants[1]
    ELSE current

\* the session the closure of a loadTenants call reads `session?.tenant` from
ClosureSession(p) ==
    IF p.sessionTenant = None THEN None ELSE [ tenant |-> p.sessionTenant ]

\* the continuation of a tenant handler has set state: TenantProvider renders
\* again, after the pending passive effects; `calls` are the calls the
\* handler leaves in flight, `loading` the isLoading it leaves
TenantRendered(calls, loading) ==
    /\ pending' = calls
    /\ isLoading' = flushedLoading(loading)
    /\ RenderFlushed

\* the continuation belongs to an instance that was unmounted meanwhile
\* (p.live = FALSE): its state setters change nothing and nothing renders
TenantOrphaned(calls) ==
    /\ pending' = calls
    /\ UNCHANGED <<currentTenant, availableTenants, isLoading>>
    /\ UNCHANGED authVars

\* loadTenants, after `await tenantService.getUserTenants(user.id)` resolved
LoadTenantsResolved(p, tenants) ==
    /\ p \in pending /\ p.op = "loadTenants"
    /\ IF p.live
       THEN /\ availableTenants' = tenants
            /\ currentTenant' = loadTenantsCurrent(ClosureSession(p), tenants, currentTenant)
            /\ TenantRendered(flushedPending \ {p}, FALSE)
            /\ LoadCompleted(tenants)
       ELSE /\ TenantOrphaned(pending \ {p})
            /\ NoReturn
    /\ UNCHANGED rbacVars

\* A plausible slip: the membership test is dropped and any id is sent on
switchTenantLookup_NoMembershipTest(tenants, tenantId) ==
    IF \E i \in DOMAIN tenants : tenants[i].id = tenantId
    THEN FindById(tenants, tenantId)
    ELSE [ id |-> tenantId, status |-> "active" ]

\* availableTenants.find(t => t.id === tenantId)
switchTenantLookup(tenants, tenantId) == FindById(tenants, tenantId)

\* what deleteTenant(tenantId) found in the currentTenant and availableTenants
\* of its render when it was called: whether tenantId was the current tenant,
\* whether it was in the list, and whether the list had other entries
DeleteContext(tenantId) ==
    [ wasActive |-> (currentTenant # None /\ currentTenant.id = tenantId),
      wasMember |-> (\E i \in DOMAIN availableTenants : availableTenants[i].id = tenantId),
      hadOthers |-> (\E i \in DOMAIN availableTenants : availableTenants[i].id # tenantId) ]

\* the in-flight tenantService.switchTenant call of switchTenant(tenant.id),
\* made by `caller` (a consumer, or deleteTenant) whose own argument was
\* callerArg; `before` is the DeleteContext of the calling deleteTenant, and
\* None when a consumer called; sid is the session object of the render the
\* handler was created in, the one its `session.tenant = tenant` assigns to
SwitchCall(tenant, caller, callerArg, before) ==
    [ op |-> "switchTenant", tenant |-> tenant,
      caller |-> caller, callerArg |-> callerArg, before |-> before,
      sid |-> sessionObj, live |-> TRUE ]

\* a consumer calls switchTenant(tenantId): up to the await, or the throw
switchTenantCall(tenantId, limit) ==
    /\ ContextProvided
    /\ LET tenant == switchTenantLookup(availableTenants, tenantId)
       IN  IF tenant = None
           THEN /\ Return("switchTenant", tenantId, "error")
                /\ UNCHANGED pending
           ELSE /\ CanAwaitUpTo(SwitchCall(tenant, "switchTenant", tenantId, None), limit)
                /\ pending' = pending \cup { SwitchCall(tenant, "switchTenant", tenantId, None) }
                /\ NoReturn
    /\ UNCHANGED <<currentTenant, availableTenants, isLoading>>
    /\ UNCHANGED rbacVars
    /\ UNCHANGED authVars

\* `session.tenant = tenant` on session object sid, as the loadTenants closures
\* in flight see it: those that hold the same object read the new tenant
SessionMutated(calls, sid, tenant) ==
    { IF q.op = "loadTenants" /\ sid # 0 /\ q.sid = sid
      THEN [ q EXCEPT !.sessionTenant = tenant ] ELSE q : q \in calls }

CallSwitchTenant(tenantId) == switchTenantCall(tenantId, MaxPending)

\* switchTenant after the backend call resolved: setCurrentTenant(tenant) and,
\* if the session of the handler's render is not null, session.tenant = tenant
\* on that object (no new reference, so the RBAC memo and the loadTenants
\* effect do not run again).  The auth state shows the assignment only while
\* it still holds that object
SwitchTenantResolved(p) ==
    /\ p \in pending /\ p.op = "switchTenant"
    /\ session' = IF p.sid # 0 /\ p.sid = sessionObj
                  THEN [ session EXCEPT !.tenant = p.tenant ]
                  ELSE session
    /\ IF p.live
       THEN /\ currentTenant' = p.tenant
            /\ TenantRendered(SessionMutated(flushedPending \ {p}, p.sid, p.tenant),
                              isLoading)
            /\ UNCHANGED availableTenants
       ELSE TenantOrphaned(SessionMutated(pending \ {p}, p.sid, p.tenant))
    /\ Return(p.caller, p.callerArg, "ok")
    /\ UNCHANGED <<user, rbacContext>>

\* switchTenant after the backend call rejected: logged and rethrown
\* (through deleteTenant's catch as well when deleteTenant was the caller)
SwitchTenantRejected(p) ==
    /\ p \in pending /\ p.op = "switchTenant"
    /\ Return(p.caller, p.callerArg, "error")
    /\ pending' = pending \ {p}
    /\ UNCHANGED <<currentTenant, availableTenants, isLoading>>
    /\ UNCHANGED rbacVars
    /\ UNCHANGED authVars

\* a consumer calls createTenant(tenantData): up to the await
CallCreateTenant ==
    /\ ContextProvided
    /\ Len(availableTenants) < MaxAvail
    /\ CanAwait([ op |-> "createTenant", live |-> TRUE ])
    /\ pending' = pending \cup { [ op |-> "createTenant", live |-> TRUE ] }
    /\ NoReturn
    /\ UNCHANGED <<currentTenant, availableTenants, isLoading>>
    /\ UNCHANGED rbacVars
    /\ UNCHANGED authVars

\* createTenant after the backend returned newTenant
CreateTenantResolved(p, newTenant) ==
    /\ p \in pending /\ p.op = "createTenant"
    /\ p.live => Len(availableTenants) < MaxAvail
    /\ IF p.live
       THEN /\ availableTenants' = Append(availableTenants, newTenant)
            /\ TenantRendered(flushedPending \ {p}, isLoading)
            /\ UNCHANGED currentTenant
       ELSE TenantOrphaned(pending \ {p})
    /\ Return("createTenant", newTenant.id, "ok")
    /\ UNCHANGED rbacVars

CreateTenantRejected(p) ==
    /\ p \in pending /\ p.op = "createTenant"
    /\ Return("createTenant", NoId, "error")
    /\ pending' = pending \ {p}
    /\ UNCHANGED <<currentTenant, availableTenants, isLoading>>
    /\ UNCHANGED rbacVars
    /\ UNCHANGED authVars

\* currentTenant?.id === tenantId, over the currentTenant of the handler's render
updateTenantIsCurrent(current, tenantId) ==
    current # None /\ current.id = tenantId

\* a consumer calls updateTenant(tenantId, updates): up to the await; the test
\* the handler makes after the await reads only its own render's currentTenant,
\* so its value is fixed here
updateTenantCall(tenantId, limit) ==
    /\ ContextProvided
    /\ LET call == [ op |-> "updateTenant", tenantId |-> tenantId,
                     isCurrent |-> updateTenantIsCurrent(currentTenant, tenantId),
                     live |-> TRUE ]
       IN  /\ CanAwaitUpTo(call, limit)
           /\ pending' = pending \cup {call}
    /\ NoReturn
    /\ UNCHANGED <<currentTenant, availableTenants, isLoading>>
    /\ UNCHANGED rbacVars
    /\ UNCHANGED authVars

CallUpdateTenant(tenantId) == updateTenantCall(tenantId, MaxPending)

\* updateTenant after the backend returned updatedTenant
UpdateTenantResolved(p, updatedTenant) ==
    /\ p \in pending /\ p.op = "updateTenant"
    /\ updatedTenant.id = p.tenantId
    /\ IF p.live
       THEN /\ availableTenants' = ReplaceById(availableTenants, p.tenantId, updatedTenant)
            /\ currentTenant' = IF p.isCurrent THEN updatedTenant ELSE currentTenant
            /\ TenantRendered(flushedPending \ {p}, isLoading)
       ELSE TenantOrphaned(pending \ {p})
    /\ Return("updateTenant", p.tenantId, "ok")
    /\ UNCHANGED rbacVars

UpdateTenantRejected(p) ==
    /\ p \in pending /\ p.op = "updateTenant"
    /\ Return("updateTenant", p.tenantId, "error")
    /\ pending' = pending \ {p}
    /\ UNCHANGED <<currentTenant, availableTenants, isLoading>>
    /\ UNCHANGED rbacVars
    /\ UNCHANGED authVars

\* deleteTenant's cascade, over the currentTenant and availableTenants of the
\* handler's render: the id passed to switchTenant, or NoId when no switch
\* is made
deleteTenantCascade(current, tenants, tenantId) ==
    IF current # None /\ current.id = tenantId /\ Len(tenants) > 1
    THEN LET remainingTenants == RemoveById(tenants, tenantId)
         IN  IF Len(remainingTenants) > 0 THEN remainingTenants[1].id ELSE NoId
    ELSE NoId

\* a consumer calls deleteTenant(tenantId): up to the await.  What the handler
\* does after the await with the values of its own render (the cascade test,
\* and the lookup of the switchTenant of the same render) reads nothing else,
\* so it is evaluated here and kept with the call
CallDeleteTenant(tenantId) ==
    /\ ContextProvided
    /\ LET switchTo == deleteTenantCascade(currentTenant, availableTenants, tenantId)
           call == [ op |-> "deleteTenant", tenantId |-> tenantId,
                     switchTo |-> switchTo,
                     tenant |-> IF switchTo = NoId THEN None
                                ELSE switchTenantLookup(availableTenants, switchTo),
                     before |-> DeleteContext(tenantId),
                     sid |-> sessionObj, live |-> TRUE ]
       IN  /\ CanAwait(call)
           /\ pending' = pending \cup {call}
    /\ NoReturn
    /\ UNCHANGED <<currentTenant, availableTenants, isLoading>>
    /\ UNCHANGED rbacVars
    /\ UNCHANGED authVars

\* deleteTenant after the backend call resolved: the entry is filtered out of
\* the current list and, when the cascade applies, switchTenant is awaited
DeleteTenantResolved(p) ==
    /\ p \in pending /\ p.op = "deleteTenant"
    /\ LET \* the switchTenant of the handler's render makes its backend call,
           \* for the instance that made the deleteTenant call
           call == [ SwitchCall(p.tenant, "deleteTenant", p.tenantId, p.before)
                       EXCEPT !.sid = p.sid, !.live = p.live ]
           cascades == p.switchTo # NoId /\ p.tenant # None
           left == IF cascades THEN {call} ELSE {}
       IN  /\ cascades => call \notin pending
           /\ IF p.live
              THEN /\ availableTenants' = RemoveById(availableTenants, p.tenantId)
                   /\ TenantRendered((flushedPending \ {p}) \cup left, isLoading)
                   /\ UNCHANGED currentTenant
              ELSE TenantOrphaned((pending \ {p}) \cup left)
           /\ IF cascades THEN NoReturn
              ELSE IF p.switchTo # NoId
                   THEN \* switchTenant throws 'Tenant not found', deleteTenant
                        \* rethrows
                        Return("deleteTenant", p.tenantId, "error")
                   ELSE Return("deleteTenant", p.tenantId, "ok")
    /\ UNCHANGED rbacVars

DeleteTenantRejected(p) ==
    /\ p \in pending /\ p.op = "deleteTenant"
    /\ Return("deleteTenant", p.tenantId, "error")
    /\ pending' = pending \ {p}
    /\ UNCHANGED <<currentTenant, availableTenants, isLoading>>
    /\ UNCHANGED rbacVars
    /\ UNCHANGED authVars

\* the answers of the tenant directory in the specifications that are not
\* about the tenants themselves: no membership, or one
DirectoryAnswers == { <<>>, <<[ id |-> "t1", status |-> "active" ]>> }

(***************************************************************************)
(* SpecRBAC : sessions of every role, and the checks made against them.    *)
(***************************************************************************)
NextRBAC ==
    \/ FlushEffects
    \/ \E u \in User :
          SessionEstablished(u, [ tenant |-> None, permissions |-> <<"view_analytics">>,
                                  token |-> "tokA", expiresAt |-> 2 * TickMs ])
    \/ SessionEnded
    \/ \E u \in User : UpdateUser(u)
    \/ \E permission \in Permission : CheckPermission(permission)
    \/ \E role \in Role : CheckRole(role)
    \/ \E p \in pending, tenants \in DirectoryAnswers : LoadTenantsResolved(p, tenants)
    \/ \E p \in pending : LoadTenantsRejected(p)

SpecRBAC == Init /\ [][NextRBAC]_vars

(***************************************************************************)
(* SpecRoute : sessions of every role, the tenant directory's answer, and  *)
(* the guarded routes rendered under the providers of App.tsx.             *)
(***************************************************************************)
\* AppContent renders its guarded routes only for an authenticated state that
\* is not loading, and it is itself a child of TenantProvider, which renders
\* a placeholder instead of its children until a current tenant is set
RoutesRendered == ~authIsLoading /\ isAuthenticated /\ ContextProvided

\* a guarded route is rendered for the signed-in user
RenderProtectedRoute(permission, role, fallback) ==
    /\ RoutesRendered
    /\ RBACProvided(rbacContext)
    /\ lastCall' = [ op |-> "ProtectedRoute", kind |-> "route",
                     permission |-> permission, role |-> role,
                     fallback |-> fallback, user |-> rbacContext.user,
                     result |-> ProtectedRoute(rbacContext, permission, role, fallback) ]
    /\ UNCHANGED <<user, session, rbacContext>>
    /\ UNCHANGED <<currentTenant, availableTenants, isLoading, pending>>
    /\ UNCHANGED authVars

NextRoute ==
    \/ FlushEffects
    \/ \E role \in BackendRoles :
          SessionEstablished(
              [ id |-> "u1", role |-> role, permissions |-> <<"view_analytics">> ],
              [ tenant |-> None, permissions |-> <<"view_analytics">>,
                token |-> "tokA", expiresAt |-> 2 * TickMs ])
    \/ SessionEnded
    \/ \E permission \in RoutePermissions \cup {NoId}, role \in Role \cup {NoId},
          fallback \in BOOLEAN :
          RenderProtectedRoute(permission, role, fallback)
    \/ \E p \in pending, tenants \in DirectoryAnswers :
          LoadTenantsResolved(p, tenants)
    \/ \E p \in pending : LoadTenantsRejected(p)

SpecRoute == Init /\ [][NextRoute]_vars

(***************************************************************************)
(* SpecTenant : one signed-in user, the tenant directory and the consumers *)
(* of the tenant context.                                                  *)
(***************************************************************************)
\* the session of SpecTenant's user: any carried tenant, or none
SignIn ==
    /\ user = None
    /\ \E t \in DirectoryTenants \cup {None} :
          SessionEstablished(
              [ id |-> "u1", role |-> "admin", permissions |-> <<"view_analytics">> ],
              [ tenant |-> t, permissions |-> <<"view_analytics">>,
                token |-> "tokA", expiresAt |-> 2 * TickMs ])

NextTenant ==
    \/ FlushEffects
    \/ SignIn
    \/ \E p \in pending, tenants \in DirectoryLists : LoadTenantsResolved(p, tenants)
    \/ \E p \in pending : LoadTenantsRejected(p)
    \/ \E tenantId \in TenantIds : CallSwitchTenant(tenantId)
    \/ \E p \in pending : SwitchTenantResolved(p)
    \/ \E p \in pending : SwitchTenantRejected(p)
    \/ CallCreateTenant
    \/ \E p \in pending, newTenant \in DirectoryTenants : CreateTenantResolved(p, newTenant)
    \/ \E p \in pending : CreateTenantRejected(p)
    \/ \E tenantId \in TenantIds : CallUpdateTenant(tenantId)
    \/ \E p \in pending, updatedTenant \in DirectoryTenants : UpdateTenantResolved(p, updatedTenant)
    \/ \E p \in pending : UpdateTenantRejected(p)
    \/ \E tenantId \in TenantIds : CallDeleteTenant(tenantId)
    \/ \E p \in pending : DeleteTenantResolved(p)
    \/ \E p \in pending : DeleteTenantRejected(p)

SpecTenant == Init /\ [][NextTenant]_vars

(***************************************************************************)
(* AuthProvider.tsx : the mount effect, the handlers and the refresh       *)
(* timer.  Every handler runs to its `await` in one step and is resumed by *)
(* the authService response.                                               *)
(***************************************************************************)
\* cap on the number of authService calls in flight at once
MaxAuthPending == 2

AuthOps == {"validateSession", "login", "logout", "refreshSession", "updateUser"}

\* the authService calls among the calls in flight
AuthCalls(calls) == { p \in calls : p.op \in AuthOps }

\* a handler suspends at its await on authService
CanAwaitAuth(call) ==
    call \notin pending /\ Cardinality(AuthCalls(pending)) < MaxAuthPending

\* the token localStorage may hold when the provider mounts
StoredTokens == {"tokA"}

\* the sessions the backend issues, by token and lifetime: one expires
\* sooner than the refresh lead time (3 min), one later (10 min)
IssuedSessions ==
    { [ token |-> "tokA", life |-> 3 * 60 * 1000 ],
      [ token |-> "tokB", life |-> 10 * 60 * 1000 ] }

\* the user of the sessions the backend issues
BackendUser == [ id |-> "u1", role |-> "admin", permissions |-> <<"view_analytics">> ]

\* the users the response of a refresh may carry as session.user: the user
\* of the sessions issued at login, or another one
BackendUsers == { BackendUser, [ BackendUser EXCEPT !.id = "u2" ] }

\* the sessions login / validateSession / refreshSession may answer with at time t
BackendSessions(t) ==
    { [ tenant |-> None, permissions |-> <<"view_analytics">>,
        token |-> issued.token, expiresAt |-> t + issued.life ] :
          issued \in IssuedSessions }

\* error.message of a rejected authService.login
LoginErrors == {"Invalid credentials", "Network Error"}

\* the mount effect: initializeAuth() up to its await, or to its end when no
\* token is stored (`token` is what localStorage holds at that time)
Mount(token) ==
    /\ ~mounted
    /\ mounted' = TRUE
    /\ authToken' = token
    /\ IF token # NoToken
       THEN /\ pending' = pending \cup { [ op |-> "validateSession", token |-> token ] }
            /\ UNCHANGED <<user, session, isAuthenticated, authIsLoading, error,
                           refreshTimer, timers, rbacContext>>
            /\ UNCHANGED <<currentTenant, availableTenants, isLoading, effects, sessionObj>>
       ELSE AuthFailure("No session found", flushedPending)
    /\ NoReturn
    /\ UNCHANGED now

\* initializeAuth after authService.validateSession(token) resolved
ValidateSessionResolved(p, u, s) ==
    /\ p \in pending /\ p.op = "validateSession"
    /\ AuthSuccess(u, s, flushedPending \ {p})
    /\ NoReturn
    /\ UNCHANGED <<authToken, now, mounted>>

\* initializeAuth after authService.validateSession(token) rejected
ValidateSessionRejected(p) ==
    /\ p \in pending /\ p.op = "validateSession"
    /\ AuthFailure("Session validation failed", flushedPending \ {p})
    /\ NoReturn
    /\ UNCHANGED <<authToken, now, mounted>>

\* a consumer calls login(credentials): AUTH_START, up to the await
CallLogin ==
    /\ mounted
    /\ CanAwaitAuth([ op |-> "login" ])
    /\ AuthStart(flushedPending \cup { [ op |-> "login" ] })
    /\ NoReturn
    /\ UNCHANGED <<authToken, now, mounted>>

\* login after authService.login resolved with session s
LoginResolved(p, u, s) ==
    /\ p \in pending /\ p.op = "login"
    /\ authToken' = s.token
    /\ AuthSuccess(u, s, flushedPending \ {p})
    /\ Return("login", NoId, "ok")
    /\ UNCHANGED <<now, mounted>>

\* login throws the error authService.login rejected with
LoginThrew(message) ==
    lastCall' = [ op |-> "login", tenantId |-> NoId, outcome |-> "error",
                  message |-> message ]

\* login after authService.login rejected with an error of that message
LoginRejected(p, message) ==
    /\ p \in pending /\ p.op = "login"
    /\ AuthFailure(message, flushedPending \ {p})
    /\ LoginThrew(message)
    /\ UNCHANGED <<authToken, now, mounted>>

\* logout returns normally; `logged` tells whether its catch block ran
\* console.error('Logout error:', error) on the way
LogoutReturned(logged) ==
    lastCall' = [ op |-> "logout", tenantId |-> NoId, outcome |-> "ok",
                  logged |-> logged ]

\* logout's finally block: the stored token is removed and AUTH_LOGOUT is
\* dispatched, then logout returns normally
logoutFinally(calls, logged) ==
    /\ authToken' = NoToken
    /\ AuthLogout(calls)
    /\ LogoutReturned(logged)
    /\ UNCHANGED <<now, mounted>>

\* a consumer calls logout(): up to the await when there is a session, else
\* straight to the finally block
CallLogout ==
    /\ mounted
    /\ IF session # None
       THEN /\ CanAwaitAuth([ op |-> "logout", token |-> session.token ])
            /\ pending' = pending \cup { [ op |-> "logout", token |-> session.token ] }
            /\ NoReturn
            /\ UNCHANGED <<user, session, rbacContext>>
            /\ UNCHANGED <<currentTenant, availableTenants, isLoading>>
            /\ UNCHANGED authVars
       ELSE logoutFinally(flushedPending, FALSE)

\* logout after authService.logout resolved
LogoutResolved(p) ==
    /\ p \in pending /\ p.op = "logout"
    /\ logoutFinally(flushedPending \ {p}, FALSE)

\* A plausible slip: the backend failure is rethrown and the session kept
LogoutRejected_Rethrows(p) ==
    /\ p \in pending /\ p.op = "logout"
    /\ pending' = pending \ {p}
    /\ Return("logout", NoId, "error")
    /\ UNCHANGED <<user, session, rbacContext>>
    /\ UNCHANGED <<currentTenant, availableTenants, isLoading>>
    /\ UNCHANGED authVars

\* logout after authService.logout rejected: the error is logged, then finally
LogoutRejected(p) ==
    /\ p \in pending /\ p.op = "logout"
    /\ logoutFinally(flushedPending \ {p}, TRUE)

\* refreshSession() of the render whose state.session has token `token`, up to
\* its await
refreshSessionStart(token) ==
    /\ CanAwaitAuth([ op |-> "refreshSession", token |-> token ])
    /\ pending' = pending \cup { [ op |-> "refreshSession", token |-> token ] }
    /\ NoReturn
    /\ UNCHANGED <<user, session, rbacContext>>
    /\ UNCHANGED <<currentTenant, availableTenants, isLoading>>
    /\ UNCHANGED <<isAuthenticated, authIsLoading, error, authToken, now, mounted, effects, sessionObj>>

\* an armed timeout fires when its delay has elapsed and calls the
\* refreshSession of the render that armed it
RefreshTimerFires(timer) ==
    /\ timer \in timers
    /\ now >= timer.armedAt + timer.delay
    /\ refreshSessionStart(timer.token)
    /\ timers' = timers \ {timer}
    /\ UNCHANGED refreshTimer

\* refreshSession returned to its caller, after the backend answered with a
\* session (answer) or without one (None: no call made, or the call rejected)
RefreshReturned(answer) ==
    lastCall' = [ op |-> "refreshSession", tenantId |-> NoId, outcome |-> "ok",
                  answer |-> answer ]

\* a consumer calls refreshSession(): returns at once without a session
CallRefreshSession ==
    /\ mounted
    /\ IF session # None
       THEN /\ refreshSessionStart(session.token)
            /\ UNCHANGED <<refreshTimer, timers>>
       ELSE /\ RefreshReturned(None)
            /\ UNCHANGED <<user, session, rbacContext>>
            /\ UNCHANGED <<currentTenant, availableTenants, isLoading, pending>>
            /\ UNCHANGED authVars

\* refreshSession after authService.refreshSession resolved with newSession,
\* whose user field is u
RefreshSessionResolved(p, u, newSession) ==
    /\ p \in pending /\ p.op = "refreshSession"
    /\ authToken' = newSession.token
    /\ AuthSuccess(u, newSession, flushedPending \ {p})
    /\ RefreshReturned([ user |-> u, session |-> newSession ])
    /\ UNCHANGED <<now, mounted>>

\* refreshSession after authService.refreshSession rejected: AUTH_FAILURE, and
\* the error is not rethrown
RefreshSessionRejected(p) ==
    /\ p \in pending /\ p.op = "refreshSession"
    /\ AuthFailure("Session refresh failed", flushedPending \ {p})
    /\ RefreshReturned(None)
    /\ UNCHANGED <<authToken, now, mounted>>

\* five minutes pass; a timer whose delay has elapsed fires before the clock
\* moves on
Tick ==
    /\ now < MaxTicks * TickMs
    /\ \A timer \in timers : now < timer.armedAt + timer.delay
    /\ now' = now + TickMs
    /\ NoReturn
    /\ UNCHANGED <<user, session, rbacContext>>
    /\ UNCHANGED <<currentTenant, availableTenants, isLoading, pending>>
    /\ UNCHANGED <<isAuthenticated, authIsLoading, error, authToken, refreshTimer,
                   timers, mounted, effects, sessionObj>>

(***************************************************************************)
(* SpecAuth : the provider mounts, then logins, logouts, refreshes and the *)
(* clock interleave with the answers of the authentication backend.        *)
(***************************************************************************)
NextAuth ==
    \/ FlushEffects
    \/ \E token \in StoredTokens \cup {NoToken} : Mount(token)
    \/ \E p \in pending, s \in BackendSessions(now) :
          ValidateSessionResolved(p, BackendUser, s)
    \/ \E p \in pending : ValidateSessionRejected(p)
    \/ CallLogin
    \/ \E p \in pending, s \in BackendSessions(now) :
          LoginResolved(p, BackendUser, s)
    \/ \E p \in pending, message \in LoginErrors : LoginRejected(p, message)
    \/ CallLogout
    \/ \E p \in pending : LogoutResolved(p)
    \/ \E p \in pending : LogoutRejected(p)
    \/ \E timer \in timers : RefreshTimerFires(timer)
    \/ CallRefreshSession
    \/ \E p \in pending, u \in BackendUsers, s \in BackendSessions(now) :
          RefreshSessionResolved(p, u, s)
    \/ \E p \in pending : RefreshSessionRejected(p)
    \/ Tick
    \/ \E p \in pending, tenants \in DirectoryAnswers : LoadTenantsResolved(p, tenants)
    \/ \E p \in pending : LoadTenantsRejected(p)

SpecAuth == Init /\ [][NextAuth]_vars

(***************************************************************************)
(* Properties of the RBAC checks, stated against the hierarchy closure.    *)
(***************************************************************************)
RECURSIVE ReachableFrom(_, _)
\* the roles reachable from the set S through roleHierarchy, S included;
\* `fuel` bounds the number of rounds by the number of roles
ReachableFrom(S, fuel) ==
    LET next == S \cup UNION { Range(roleHierarchy[r]) : r \in S }
    IN  IF fuel = 0 \/ next = S THEN S ELSE ReachableFrom(next, fuel - 1)

\* requiredRole = userRole, or requiredRole reachable from userRole
AtLeast(userRole, requiredRole) ==
    requiredRole \in ReachableFrom({userRole}, Cardinality(Role))

\* union of the direct grants of R and of every role reachable from R
EffectivePermissionSet(R) ==
    IF R \in Role
    THEN UNION { Range(rolePermissions[r]) : r \in ReachableFrom({R}, Cardinality(Role)) }
    ELSE {}

RoleCheckDone ==
    /\ lastCheck # None
    /\ lastCheck.kind = "role"
    /\ lastCheck.user.role \in Role

PermissionCheckDone ==
    /\ lastCheck # None
    /\ lastCheck.kind = "permission"

\* C1: hasRole is sound: it answers true only when the required role is the
\* user's role or is reachable from it through roleHierarchy.
C1_HasRoleSound ==
    (RoleCheckDone /\ lastCheck.result)
        => AtLeast(lastCheck.user.role, lastCheck.arg)

\* C2: hasRole is complete: it answers true whenever the required role is the
\* user's role or is reachable from it through roleHierarchy.
C2_HasRoleComplete ==
    (RoleCheckDone /\ AtLeast(lastCheck.user.role, lastCheck.arg))
        => lastCheck.result

\* C3: the permissions held by a context of role R are exactly the union of
\* rolePermissions over R and every role reachable from R.
C3_PermissionsAreClosureUnion ==
    (RBACProvided(rbacContext) /\ rbacContext.user.role \in Role)
        => Range(rbacContext.permissions) = EffectivePermissionSet(rbacContext.user.role)

\* C3 witness: a developer holds view_compliance, granted only through viewer
C3_Witness ==
    /\ RBACProvided(rbacContext)
    /\ rbacContext.user.role = "developer"
    /\ ~Includes(rolePermissions["developer"], "view_compliance")
    /\ Includes(rbacContext.permissions, "view_compliance")

\* C4: a role outside the role tables is rejected when its permissions are
\* resolved, so no hasPermission decision is ever made for such a role.
C4_UnknownRoleFailsFast ==
    PermissionCheckDone => lastCheck.user.role \in Role

\* docs/ITERATION_4_SUMMARY.md, Permission Matrix: the roles each row grants
PermissionMatrix ==
    [ manage_users      |-> {"owner", "admin"},
      view_analytics    |-> Role,
      manage_compliance |-> {"owner", "admin", "analyst"},
      promote_rulesets  |-> {"owner", "admin", "developer"},
      submit_rulesets   |-> {"owner", "partner"} ]

\* C5: for the five permissions of the documented matrix, a role holds the
\* permission exactly when the matrix grants it.
C5_MatrixMatches ==
    (PermissionCheckDone /\ lastCheck.user.role \in Role
        /\ lastCheck.arg \in DOMAIN PermissionMatrix)
        => (lastCheck.result <=> lastCheck.user.role \in PermissionMatrix[lastCheck.arg])

\* C6: a permission decision is a function of the role alone: it equals
\* membership in the role's resolved set, whatever permission list the user
\* or session record carries.
C6_DecisionFromRoleOnly ==
    PermissionCheckDone
        => (lastCheck.result <=> lastCheck.arg \in EffectivePermissionSet(lastCheck.user.role))

\* C6 witness: the user's own list carries the permission and the decision,
\* taken from the role, denies it
C6_Witness ==
    /\ PermissionCheckDone
    /\ Includes(lastCheck.user.permissions, lastCheck.arg)
    /\ ~lastCheck.result
    /\ session # None
    /\ session.permissions # lastCheck.user.permissions

(***************************************************************************)
(* Properties of the tenant context.                                       *)
(***************************************************************************)
\* tenants.map(t => t.id) contains tenantId
HasId(tenants, tenantId) == \E i \in DOMAIN tenants : tenants[i].id = tenantId

\* the step returns from switchTenant, called by a consumer, with an error
SwitchTenantThrew ==
    /\ lastCall' # None
    /\ lastCall'.op = "switchTenant"
    /\ lastCall'.outcome = "error"

\* the in-flight backend switch calls made on behalf of a consumer's switchTenant
ConsumerSwitchCalls(calls) ==
    { p \in calls : p.op = "switchTenant" /\ p.caller = "switchTenant" }

\* C7 (invariant I1): once loading is over and a tenant is active, the id of
\* the active tenant, and of session.tenant, is the id of an available tenant.
C7_ActiveTenantIsMember ==
    (~isLoading /\ currentTenant # None)
        => /\ HasId(availableTenants, currentTenant.id)
           /\ (session # None /\ session.tenant # None)
                 => HasId(availableTenants, session.tenant.id)

\* C8: a switchTenant whose target is an available tenant that is suspended or
\* cancelled returns an error and leaves currentTenant and session.tenant as
\* they were.
C8_SwitchToInactiveFails ==
    [][ \A p \in ConsumerSwitchCalls(pending) :
           (p.tenant.status # "active" /\ p \notin pending')
              => /\ lastCall'.outcome = "error"
                 /\ currentTenant' = currentTenant
                 /\ session' = session ]_vars

\* C9 (invariant I2): whenever loadTenants, switchTenant or the deleteTenant
\* cascade sets the active tenant, the tenant set has status active.
C9_OnlyActiveTenantActivated ==
    [][ /\ \A p \in pending \ pending' :
             (p.op = "switchTenant" /\ lastCall'.outcome = "ok")
                => currentTenant'.status = "active"
        /\ \A p \in pending \ pending' :
             (p.op = "loadTenants" /\ currentTenant' # currentTenant)
                => currentTenant'.status = "active" ]_vars

\* C10: a switchTenant that throws leaves currentTenant and the session as they
\* were; the backend switch call is made only for an id found in
\* availableTenants, and making it changes neither.
C10_FailedSwitchChangesNothing ==
    [][ /\ SwitchTenantThrew => (currentTenant' = currentTenant /\ session' = session)
        /\ \A p \in ConsumerSwitchCalls(pending') \ pending :
              /\ HasId(availableTenants, p.callerArg)
              /\ currentTenant' = currentTenant
              /\ session' = session ]_vars

\* C10 witness: the backend rejected the switch to another available tenant
C10_Witness ==
    /\ lastCall # None
    /\ lastCall.op = "switchTenant"
    /\ lastCall.outcome = "error"
    /\ HasId(availableTenants, lastCall.tenantId)
    /\ currentTenant # None
    /\ currentTenant.id # lastCall.tenantId

\* the step in which deleteTenant returns after the directory deleted the
\* tenant: `p` is the call the step consumes (the cascade's backend switch, or
\* the delete call itself when deleteTenant returns normally without cascade)
DeleteTenantReturned(p) ==
    /\ lastCall' # None
    /\ lastCall'.op = "deleteTenant"
    /\ \/ p.op = "switchTenant"
       \/ p.op = "deleteTenant" /\ lastCall'.outcome = "ok"

\* C11 (invariant I3): when deleteTenant returns, normally or with an error,
\* after deleting the active tenant while another membership existed, the
\* active tenant is not the deleted one and is one of the remaining
\* availableTenants.
C11_CascadeLeavesLiveTenant ==
    [][ \A p \in pending \ pending' :
           ( /\ DeleteTenantReturned(p)
             /\ p.before.wasActive
             /\ p.before.wasMember
             /\ p.before.hadOthers )
              => /\ currentTenant' # None
                 /\ currentTenant'.id # lastCall'.tenantId
                 /\ HasId(availableTenants', currentTenant'.id) ]_vars

\* C12: when deleteTenant returns after deleting the active tenant that was
\* the only membership, availableTenants is empty and there is no current
\* tenant.
C12_LastMembershipEndsNoTenant ==
    [][ \A p \in pending \ pending' :
           ( /\ DeleteTenantReturned(p)
             /\ p.before.wasActive
             /\ p.before.wasMember
             /\ ~p.before.hadOthers )
              => /\ availableTenants' = <<>>
                 /\ currentTenant' = None ]_vars

\* createTenant, updateTenant or deleteTenant returns to its caller by throwing
TenantMutationThrew ==
    /\ lastCall' # None
    /\ lastCall'.op \in {"createTenant", "updateTenant", "deleteTenant"}
    /\ lastCall'.outcome = "error"

\* C13: when createTenant, updateTenant or deleteTenant throws (the error of
\* deleteTenant's switchTenant cascade included), availableTenants and the
\* current tenant are what they were before the call: the throwing step
\* changes neither, and when the cascade throws, the tenant deleteTenant was
\* called with is in availableTenants if and only if it was when called.
C13_NoPartialApplication ==
    [][ TenantMutationThrew
           => /\ availableTenants' = availableTenants
              /\ currentTenant' = currentTenant
              /\ \A p \in pending \ pending' :
                    p.op = "switchTenant"
                       => (HasId(availableTenants', lastCall'.tenantId)
                             <=> p.before.wasMember) ]_vars

\* the step in which loadTenants ended on an answer of the directory
LoadTenantsDone ==
    /\ lastCall' # None
    /\ lastCall'.op = "loadTenants"

\* C19: when loadTenants ends on the directory's answer, availableTenants is
\* that answer in its order, and the current tenant is the tenant the session
\* carries if it carries one, else the first entry of the answer.
C19_LoadSelectsSessionTenantOrFirst ==
    [][ LoadTenantsDone
           => /\ availableTenants' = lastCall'.tenants
              /\ (session # None /\ session.tenant # None)
                    => currentTenant' = session.tenant
              /\ (session # None /\ session.tenant = None /\ lastCall'.tenants # <<>>)
                    => currentTenant' = lastCall'.tenants[1] ]_vars

\* C19 witness: two memberships were loaded and the session's tenant, which
\* is not the first of them, is the current tenant
C19_Witness ==
    /\ lastCall # None
    /\ lastCall.op = "loadTenants"
    /\ Len(availableTenants) = 2
    /\ session # None
    /\ session.tenant # None
    /\ currentTenant = session.tenant
    /\ currentTenant = availableTenants[2]

\* C20: when loadTenants ends on an empty answer there is no current tenant
\* and the tenant context is not provided to the children, whether or not the
\* session carries a tenant.
C20_EmptyDirectoryEndsNoTenant ==
    [][ (LoadTenantsDone /\ lastCall'.tenants = <<>>)
           => /\ currentTenant' = None
              /\ ~(~isLoading' /\ currentTenant' # None) ]_vars

(***************************************************************************)
(* Properties of the session state.                                        *)
(***************************************************************************)
\* the auth state is Unauthenticated
Unauthenticated ==
    /\ ~isAuthenticated
    /\ user = None
    /\ session = None

\* C14: a failed backend refresh leaves the state Unauthenticated with no
\* refresh timer (a timeout still armed is cleared by the effect cleanup the
\* commit leaves to run); and from then on, as long as that failure is the
\* last thing recorded, no refresh call is issued, no timer is armed, and only
\* the completion of a login or of the mount-time validation establishes a
\* session.
C14_RefreshFailureEndsSession ==
    [][ /\ \A p \in pending \ pending' :
              (p.op = "refreshSession" /\ error' = "Session refresh failed")
                 => /\ Unauthenticated'
                    /\ timers' # {} => "timer" \in effects'
        /\ error = "Session refresh failed"
              => /\ \A p \in pending' \ pending : p.op # "refreshSession"
                 /\ (timers' # {} /\ effects' = {}) => session' # None
                 /\ session' # None
                       => \E p \in pending \ pending' :
                             p.op \in {"login", "validateSession"} ]_vars

\* the instant the refresh of a session armed at armedAt is due
RefreshDue(s, armedAt) == Max(s.expiresAt - REFRESH_MARGIN, armedAt)

\* C15: every session established at time now has its refresh timer armed
\* with delay max(expiresAt - now - 5 min, 0), and the timer's refresh call is
\* made at the instant that delay has elapsed, neither before nor after.
\* The commit that establishes the session leaves the auto-refresh effect to
\* run; a timeout is armed only by a run of that effect, which arms the one
\* timer, for the session of its render and at the instant it runs; once the
\* effect has run for the current session, the timeout it holds is the one
\* of that session, due at the session's refresh instant; no armed timer is
\* ever overdue; and a timer that leaves the armed set while the effect still
\* holds its handle (it was not cleared by the effect's cleanup) has fired, at
\* its due instant, and its refresh call is in flight.
C15_RefreshFiresAtMargin ==
    [][ /\ (session' # None /\ session' # session)
              => "timer" \in effects' /\ now' = now
        /\ (refreshTimer' # None /\ refreshTimer' # refreshTimer)
              => /\ "timer" \in effects /\ session # None
                 /\ timers' = {refreshTimer'}
                 /\ refreshTimer'.armedAt = now
                 /\ refreshTimer'.token = session.token
                 /\ refreshTimer'.armedAt + refreshTimer'.delay = RefreshDue(session, now)
        /\ (session' # None /\ "timer" \notin effects')
              => /\ refreshTimer' # None
                 /\ timers' \subseteq {refreshTimer'}
                 /\ refreshTimer'.token = session'.token
                 /\ refreshTimer'.armedAt + refreshTimer'.delay
                       = RefreshDue(session', refreshTimer'.armedAt)
        /\ \A timer \in timers' : now' <= timer.armedAt + timer.delay
        /\ \A timer \in timers \ timers' :
              refreshTimer' = refreshTimer
                 => /\ now = timer.armedAt + timer.delay
                    /\ [ op |-> "refreshSession", token |-> timer.token ]
                          \in pending' \ pending ]_vars

\* C15 witness: a session issued at 0 that expires at 10 min has its refresh
\* in flight at 5 min, the timer having fired
C15_Witness ==
    /\ session # None
    /\ session.expiresAt = 2 * TickMs
    /\ now = TickMs
    /\ refreshTimer # None
    /\ refreshTimer.armedAt = 0
    /\ refreshTimer.delay = REFRESH_MARGIN
    /\ timers = {}
    /\ [ op |-> "refreshSession", token |-> session.token ] \in pending

\* C16: a logout always returns normally, whether the backend logout call
\* resolved, rejected or was not made, and when it returns the state is
\* Unauthenticated, error is null and the stored token is removed.
C16_LogoutAlwaysClears ==
    [][ /\ \A p \in pending \ pending' :
              p.op = "logout" => (lastCall' # None /\ lastCall'.op = "logout")
        /\ (lastCall' # None /\ lastCall'.op = "logout")
              => /\ lastCall'.outcome = "ok"
                 /\ Unauthenticated'
                 /\ error' = NoError
                 /\ authToken' = NoToken ]_vars

\* C16 witness: the backend logout call was rejected and logout returned
C16_Witness ==
    /\ lastCall # None
    /\ lastCall.op = "logout"
    /\ lastCall.logged
    /\ Unauthenticated
    /\ authToken = NoToken

\* C17: when login throws, the state is Unauthenticated, state.error is the
\* message of the error thrown, and the stored token is what it was before
\* (the failed attempt persists nothing).
C17_FailedLoginEndsUnauthenticated ==
    [][ /\ \A p \in pending \ pending' :
              (p.op = "login" /\ session' = None)
                 => (lastCall'.op = "login" /\ lastCall'.outcome = "error")
        /\ (lastCall' # None /\ lastCall'.op = "login" /\ lastCall'.outcome = "error")
              => /\ Unauthenticated'
                 /\ error' = lastCall'.message
                 /\ error' \in LoginErrors
                 /\ authToken' = authToken ]_vars

\* C17 witness: a login failed after an earlier session had stored its token
C17_Witness ==
    /\ lastCall # None
    /\ lastCall.op = "login"
    /\ lastCall.outcome = "error"
    /\ error = lastCall.message
    /\ Unauthenticated
    /\ authToken = "tokB"

\* C18: when the mount-time bootstrap finds no stored token, or the
\* validation of the stored token fails, the state is Unauthenticated with
\* state.error = null.
C18_BootstrapSurfacesNoError ==
    [][ ( \/ ~mounted /\ mounted' /\ authToken' = NoToken
          \/ \E p \in pending \ pending' :
                p.op = "validateSession" /\ session' = None )
           => /\ Unauthenticated'
              /\ error' = NoError ]_vars

(***************************************************************************)
(* Properties of the route guard.                                          *)
(***************************************************************************)
RouteRendered ==
    /\ lastCheck # None
    /\ lastCheck.kind = "route"

\* the guard's two requirements are met for the user the route was rendered for
RouteRequirementsMet ==
    /\ \/ lastCheck.permission = NoId
       \/ lastCheck.permission \in Range(getUserPermissions(lastCheck.user.role))
    /\ \/ lastCheck.role = NoId
       \/ hasRole([ user |-> lastCheck.user ], lastCheck.role)

\* C21: ProtectedRoute renders its children if and only if (no permission is
\* required or the user's resolved permissions contain it) and (no role is
\* required or hasRole answers true for it); otherwise it renders the
\* fallback when one is given and the redirect to /unauthorized when not.
C21_GuardAllowsOnlyPermitted ==
    RouteRendered
        => /\ (lastCheck.result = "children") <=> RouteRequirementsMet
           /\ ~RouteRequirementsMet
                 => lastCheck.result = (IF lastCheck.fallback THEN "fallback"
                                        ELSE "unauthorized")

\* C21 witness: the permission requirement is met, the role requirement is
\* not, and the redirect is rendered
C21_Witness ==
    /\ RouteRendered
    /\ lastCheck.permission # NoId
    /\ lastCheck.permission \in Range(getUserPermissions(lastCheck.user.role))
    /\ lastCheck.role # NoId
    /\ lastCheck.result = "unauthorized"

(***************************************************************************)
(* Properties of the session state under overlapping calls.                *)
(***************************************************************************)
\* the session a call was started for (the one holding `token`) is no longer
\* the current session
SessionEnded_For(token) == session = None \/ session.token # token

\* C22: the completion of a refreshSession call whose session has been ended
\* in the meantime (by a logout, or by a login that established another
\* session) changes neither the auth state nor the stored token.
C22_StaleRefreshChangesNothing ==
    [][ \A p \in pending \ pending' :
           (p.op = "refreshSession" /\ SessionEnded_For(p.token))
              => /\ user' = user
                 /\ session' = session
                 /\ isAuthenticated' = isAuthenticated
                 /\ error' = error
                 /\ authToken' = authToken ]_vars


\* C23: in every reachable state at most one refresh timeout is armed, it is
\* the one armed for the current session (same token, due at the session's
\* refresh instant), and no timeout is armed while there is no session: the
\* timeout of the previous session is cancelled by the time the session has
\* changed.
C23_OneTimerOfCurrentSession ==
    /\ Cardinality(timers) <= 1
    /\ session = None => timers = {}
    /\ \A timer \in timers :
          /\ session # None
          /\ timer = refreshTimer
          /\ timer.token = session.token
          /\ timer.armedAt + timer.delay = RefreshDue(session, timer.armedAt)

\* switchTenant(t) called by a consumer has just returned successfully
SwitchTenantReturned ==
    /\ lastCall' # None
    /\ lastCall'.op = "switchTenant"
    /\ lastCall'.outcome = "ok"

\* C24: when switchTenant(t) returns successfully, currentTenant, the session's
\* tenant and the tenant of the RBAC context all are t; and no step other than
\* the successful completion of a switch changes any of the three while a
\* switch is in flight.
C24_SwitchVisibleToAllReaders ==
    [][ /\ SwitchTenantReturned
              => /\ currentTenant' # None
                 /\ currentTenant'.id = lastCall'.tenantId
                 /\ session' # None /\ session'.tenant = currentTenant'
                 /\ rbacContext' # None /\ rbacContext'.tenant = currentTenant'
        /\ ((\E p \in pending : p.op = "switchTenant") /\ lastCall' = None)
              => /\ currentTenant' = currentTenant
                 /\ session' = session
                 /\ rbacContext' = rbacContext ]_vars

(***************************************************************************)
(* AuthProvider and TenantProvider together: users signing in and out      *)
(* while the directory answers the loadTenants calls of the effect.        *)
(***************************************************************************)
\* the users who sign in one after the other in the same browser tab
Members == {"u1", "u2"}

\* the tenant ids of a user's memberships: the two users share no tenant
Memberships(userId) == IF userId = "u1" THEN {"t1"} ELSE {"t2"}

\* the answers of tenantService.getUserTenants for that user: her tenants
MemberLists(userId) ==
    { tenants \in DirectoryLists :
         \A i \in DOMAIN tenants : tenants[i].id \in Memberships(userId) }

\* the sessions the backend issues to that user: no tenant, or one of hers
MemberSessions(userId) ==
    { [ tenant |-> t, permissions |-> <<"view_analytics">>,
        token |-> "tokA", expiresAt |-> 2 * TickMs ] :
          t \in {None} \cup { d \in DirectoryTenants : d.id \in Memberships(userId) } }

\* login as userId succeeded, from the signed-out state or while another
\* user's session is active (AUTH_SUCCESS replaces both user and session)
SignInAs(userId) ==
    /\ user # None => user.id # userId
    /\ \E s \in MemberSessions(userId) :
          SessionEstablished(
              [ id |-> userId, role |-> "admin", permissions |-> <<"view_analytics">> ], s)

NextUserChange ==
    \/ FlushEffects
    \/ \E userId \in Members : SignInAs(userId)
    \/ SessionEnded
    \/ \E p \in { q \in pending : q.op = "loadTenants" } :
       \E tenants \in MemberLists(p.userId) :
          LoadTenantsResolved(p, tenants)
    \/ \E p \in pending : LoadTenantsRejected(p)

SpecUserChange == Init /\ [][NextUserChange]_vars

\* C25: the tenant context follows the current user: with no user signed in
\* currentTenant is none and availableTenants is empty; with a user signed in
\* and loading finished (the effect of the last commit has run, and no
\* directory call of the mounted provider is in flight), availableTenants
\* holds only tenants of that user's memberships, and the active tenant is not
\* one of another user's.
C25_TenantContextFollowsUser ==
    /\ user = None => (currentTenant = None /\ availableTenants = <<>>)
    /\ (user # None /\ effects = {} /\ ~isLoading
           /\ \A q \in LoadCalls(pending) : ~q.live)
          => /\ \A i \in DOMAIN availableTenants :
                    availableTenants[i].id \in Memberships(user.id)
             /\ currentTenant # None => currentTenant.id \in Memberships(user.id)

(***************************************************************************)
(* TenantProvider with two handler calls in flight: a switchTenant and an  *)
(* updateTenant racing each other.                                         *)
(***************************************************************************)
\* calls in flight at once in the race
MaxRacing == 2

NextTenantRace ==
    \/ FlushEffects
    \/ SignIn
    \/ \E p \in pending, tenants \in DirectoryLists : LoadTenantsResolved(p, tenants)
    \/ \E tenantId \in TenantIds : switchTenantCall(tenantId, MaxRacing)
    \/ \E p \in pending : SwitchTenantResolved(p)
    \/ \E p \in pending : SwitchTenantRejected(p)
    \/ \E tenantId \in TenantIds : updateTenantCall(tenantId, MaxRacing)
    \/ \E p \in pending, updatedTenant \in DirectoryTenants : UpdateTenantResolved(p, updatedTenant)
    \/ \E p \in pending : UpdateTenantRejected(p)

SpecTenantRace == Init /\ [][NextTenantRace]_vars

\* C26: when updateTenant(id, data) has completed successfully, whether or not
\* a switchTenant completed while it was in flight, a current tenant whose id
\* is id is equal to every entry of availableTenants with that id.
C26_UpdatedTenantViewsAgree ==
    [][ (lastCall' # None /\ lastCall'.op = "updateTenant" /\ lastCall'.outcome = "ok")
           => \A i \in DOMAIN availableTenants' :
                 (/\ currentTenant' # None
                  /\ currentTenant'.id = lastCall'.tenantId
                  /\ availableTenants'[i].id = lastCall'.tenantId)
                    => currentTenant' = availableTenants'[i] ]_vars

\* refreshSession has just succeeded: the backend answered with a session
RefreshSucceeded ==
    /\ lastCall' # None
    /\ lastCall'.op = "refreshSession"
    /\ lastCall'.answer # None

\* C27: when refreshSession succeeds the state is Authenticated, the user id
\* is the one of the user before the refresh completed, the session's token
\* and expiresAt are the backend's, the persisted token is the new token, and
\* the effect that arms a timeout for the new session is left to run.
C27_RefreshReplacesSessionInPlace ==
    [][ RefreshSucceeded
           => /\ isAuthenticated' /\ ~authIsLoading'
              /\ user # None /\ user' # None /\ user'.id = user.id
              /\ session' # None
              /\ session'.token = lastCall'.answer.session.token
              /\ session'.expiresAt = lastCall'.answer.session.expiresAt
              /\ authToken' = session'.token
              /\ "timer" \in effects' ]_vars

\* the number of entries of tenants with that id
CountById(tenants, tenantId) ==
    Cardinality({ i \in DOMAIN tenants : tenants[i].id = tenantId })

\* C28: when createTenant returns a tenant successfully, availableTenants
\* holds that tenant exactly once (inserted, or replacing the entry of its
\* id), and a list with at most one entry per id stays so.
C28_CreateMergesById ==
    [][ (lastCall' # None /\ lastCall'.op = "createTenant" /\ lastCall'.outcome = "ok")
           => /\ CountById(availableTenants', lastCall'.tenantId) = 1
              /\ (\A id \in TenantIds : CountById(availableTenants, id) <= 1)
                    => (\A id \in TenantIds : CountById(availableTenants', id) <= 1) ]_vars

(***************************************************************************)
(* AuthProvider.tsx : updateUser, next to the other handlers.              *)
(***************************************************************************)
\* the user records authService.updateUser answers with for that user id
UpdatedUsers(userId) ==
    { [ id |-> userId, role |-> r, permissions |-> <<"view_analytics">> ] :
         r \in {"admin", "viewer"} }

\* a consumer calls updateUser(userUpdates): returns at once without a user,
\* else up to the await
CallUpdateUser ==
    /\ mounted
    /\ IF user = None
       THEN /\ Return("updateUser", NoId, "ok")
            /\ UNCHANGED pending
       ELSE /\ CanAwaitAuth([ op |-> "updateUser", userId |-> user.id ])
            /\ pending' = pending \cup { [ op |-> "updateUser", userId |-> user.id ] }
            /\ NoReturn
    /\ UNCHANGED <<user, session, rbacContext>>
    /\ UNCHANGED <<currentTenant, availableTenants, isLoading>>
    /\ UNCHANGED authVars

\* updateUser after authService.updateUser resolved with updatedUser
UpdateUserResolved(p, updatedUser) ==
    /\ p \in pending /\ p.op = "updateUser"
    /\ UpdateUserDispatched(updatedUser, flushedPending \ {p})
    /\ Return("updateUser", NoId, "ok")
    /\ UNCHANGED <<authToken, now, mounted>>

\* updateUser after authService.updateUser rejected: logged and rethrown
UpdateUserRejected(p) ==
    /\ p \in pending /\ p.op = "updateUser"
    /\ Return("updateUser", NoId, "error")
    /\ pending' = pending \ {p}
    /\ UNCHANGED <<user, session, rbacContext>>
    /\ UNCHANGED <<currentTenant, availableTenants, isLoading>>
    /\ UNCHANGED authVars

\* the sessions among them that outlive the refresh lead time
LongSessions(t) == { s \in BackendSessions(t) : s.expiresAt - t > REFRESH_MARGIN }

\* the handlers of the provider with updateUser, the clock and the directory;
\* the backend issues the sessions that outlive the refresh lead time
NextAuthUser ==
    \/ FlushEffects
    \/ \E token \in StoredTokens \cup {NoToken} : Mount(token)
    \/ \E p \in pending, s \in LongSessions(now) :
          ValidateSessionResolved(p, BackendUser, s)
    \/ \E p \in pending : ValidateSessionRejected(p)
    \/ CallLogin
    \/ \E p \in pending, s \in LongSessions(now) :
          LoginResolved(p, BackendUser, s)
    \/ \E p \in pending, message \in LoginErrors : LoginRejected(p, message)
    \/ CallLogout
    \/ \E p \in pending : LogoutResolved(p)
    \/ \E p \in pending : LogoutRejected(p)
    \/ \E timer \in timers : RefreshTimerFires(timer)
    \/ CallRefreshSession
    \/ \E p \in pending, s \in LongSessions(now) :
          RefreshSessionResolved(p, BackendUser, s)
    \/ \E p \in pending : RefreshSessionRejected(p)
    \/ CallUpdateUser
    \/ \E p \in { q \in pending : q.op = "updateUser" } :
       \E updatedUser \in UpdatedUsers(p.userId) :
          UpdateUserResolved(p, updatedUser)
    \/ \E p \in pending : UpdateUserRejected(p)
    \/ Tick
    \/ \E p \in pending, tenants \in DirectoryAnswers : LoadTenantsResolved(p, tenants)
    \/ \E p \in pending : LoadTenantsRejected(p)

SpecAuthUser == Init /\ [][NextAuthUser]_vars

\* C29: in every reachable state isAuthenticated is true exactly when both
\* user and session are non-null, and an unauthenticated state holds neither a
\* user nor a session.
C29_AuthenticatedIffUserAndSession ==
    /\ isAuthenticated <=> (user # None /\ session # None)
    /\ ~isAuthenticated => (user = None /\ session = None)

\* C30: when the mount-time validateSession call completes after a login has
\* succeeded (the state is Authenticated while the call is still in flight),
\* the state stays Authenticated with the user and session of the login.
C30_BootstrapNeverOverridesLogin ==
    [][ \A p \in pending \ pending' :
           (p.op = "validateSession" /\ isAuthenticated)
              => /\ isAuthenticated'
                 /\ user' = user
                 /\ session' = session
                 /\ error' = error ]_vars

====
